---- MODULE Spec2Model ----
(***************************************************************************)
(* A model of vsaas-storage: the filesystem provider (path resolution,     *)
(* upload, download, delete, copy, move, signed tokens), the upload        *)
(* pipeline and the access dispatcher (StreamFile).                        *)
(*                                                                         *)
(* Strings are modelled as sequences of one-character strings, so that     *)
(* filepath.Clean, strings.Contains, strings.TrimPrefix and filepath.Ext   *)
(* are computed as the Go code computes them.  The filesystem is a map     *)
(* from absolute paths (sequences of path elements) to nodes; it holds the *)
(* whole namespace, the part outside the configured base path included.    *)
(***************************************************************************)
EXTENDS Integers, Sequences, FiniteSets, TLC

VARIABLES
    config,   \* the StorageConfig the facade was built with
    fs,       \* the filesystem: absolute path -> node
    last,     \* the call that returned last, with its arguments and results
    now,      \* the clock, in seconds (time.Now().Unix())
    issued,   \* tokens returned by GenerateSignedURL and still held by clients
    resp,     \* the HTTP response of the last StreamFile request
    procs,    \* the calls in progress: pipeline uploads, download requests
    batch,    \* the UploadFromCtx call: its staged files, position and results
    facades   \* the Storage values New has returned, in the order of the calls

vars == <<config, fs, last, now, issued, resp, procs, batch, facades>>

----------------------------------------------------------------------------
(* Strings *)

\* strings.Contains(s, sub)
Contains(s, sub) ==
    \E i \in 1..(Len(s) - Len(sub) + 1) : SubSeq(s, i, i + Len(sub) - 1) = sub

\* strings.HasPrefix(s, pre)
HasPrefix(s, pre) ==
    Len(s) >= Len(pre) /\ SubSeq(s, 1, Len(pre)) = pre

\* strings.HasSuffix(s, suf)
HasSuffix(s, suf) ==
    Len(s) >= Len(suf) /\ SubSeq(s, Len(s) - Len(suf) + 1, Len(s)) = suf

\* strings.TrimPrefix(s, pre)
TrimPrefix(s, pre) ==
    IF HasPrefix(s, pre) THEN SubSeq(s, Len(pre) + 1, Len(s)) ELSE s

\* strings.TrimSuffix(s, suf)
TrimSuffix(s, suf) ==
    IF HasSuffix(s, suf) THEN SubSeq(s, 1, Len(s) - Len(suf)) ELSE s

RECURSIVE SplitRec(_, _, _, _)
SplitRec(s, i, cur, acc) ==
    IF i > Len(s) THEN Append(acc, cur)
    ELSE IF s[i] = "/" THEN SplitRec(s, i + 1, <<>>, Append(acc, cur))
    ELSE SplitRec(s, i + 1, Append(cur, s[i]), acc)

\* The path elements of s: what lies between its separators (empty ones kept).
Elements(s) == SplitRec(s, 1, <<>>, <<>>)

RECURSIVE JoinElems(_)
JoinElems(elems) ==
    IF elems = <<>> THEN <<>>
    ELSE IF Len(elems) = 1 THEN elems[1]
    ELSE elems[1] \o <<"/">> \o JoinElems(Tail(elems))

DotDot == <<".", ".">>

RECURSIVE CleanElems(_, _, _, _)
\* The loop of filepath.Clean over the elements of the path: empty and "."
\* elements are dropped; ".." removes the element before it when there is one
\* that is not itself "..", is kept at the front of a relative path and is
\* dropped at the root of a rooted one.
CleanElems(elems, i, out, rooted) ==
    IF i > Len(elems) THEN out
    ELSE IF elems[i] = <<>> \/ elems[i] = <<".">>
        THEN CleanElems(elems, i + 1, out, rooted)
    ELSE IF elems[i] = DotDot
        THEN IF out # <<>> /\ out[Len(out)] # DotDot
                 THEN CleanElems(elems, i + 1, SubSeq(out, 1, Len(out) - 1), rooted)
             ELSE IF ~rooted
                 THEN CleanElems(elems, i + 1, Append(out, DotDot), rooted)
             ELSE CleanElems(elems, i + 1, out, rooted)
    ELSE CleanElems(elems, i + 1, Append(out, elems[i]), rooted)

\* filepath.Clean(path)
Clean(path) ==
    IF path = <<>> THEN <<".">>
    ELSE LET rooted == path[1] = "/"
             out    == CleanElems(Elements(path), 1, <<>>, rooted)
         IN  IF rooted THEN <<"/">> \o JoinElems(out)
             ELSE IF out = <<>> THEN <<".">>
             ELSE JoinElems(out)

\* filepath.Join(a, b): the non-empty arguments joined by a separator, cleaned.
Join(a, b) ==
    IF a = <<>> /\ b = <<>> THEN <<>>
    ELSE IF b = <<>> THEN Clean(a)
    ELSE IF a = <<>> THEN Clean(b)
    ELSE Clean(a \o <<"/">> \o b)

RECURSIVE LastDot(_, _)
\* The index of the last "." in the last element of s, 0 when it has none.
LastDot(s, i) ==
    IF i = 0 \/ s[i] = "/" THEN 0
    ELSE IF s[i] = "." THEN i
    ELSE LastDot(s, i - 1)

\* filepath.Ext(name)
Ext(name) ==
    LET i == LastDot(name, Len(name))
    IN  IF i = 0 THEN <<>> ELSE SubSeq(name, i, Len(name))

----------------------------------------------------------------------------
(* Configuration *)

\* config.FileSystem.BasePath
BasePath == <<"/", "r">>

\* 30 * time.Minute, in seconds
DefaultExpiresIn == 1800

\* The signed-URL part of a StorageConfig: present tells whether
\* config.SignedURL is set at all.
SignedURLConfigs ==
    [present : BOOLEAN, enabled : BOOLEAN, secretKey : {"", "secret"}, expiresIn : {0, 2}]

\* A configuration with signed URLs enabled and a secret key
SignedConfig == [present |-> TRUE, enabled |-> TRUE, secretKey |-> "secret", expiresIn |-> 0]

\* The configurations the model is run with: signed URLs absent, disabled,
\* enabled without a secret, and enabled with a secret (with and without an
\* expiry of its own).
Configs ==
    { c \in SignedURLConfigs :
        /\ ~c.present => (~c.enabled /\ c.secretKey = "" /\ c.expiresIn = 0)
        /\ (c.present /\ ~c.enabled) => (c.secretKey = "secret" /\ c.expiresIn = 0)
        /\ c.secretKey = "" => c.expiresIn = 0 }

\* StorageConfig.GetSignedURLConfig
GetSignedURLConfig(c) ==
    IF ~c.present
        THEN [enabled |-> FALSE, expiresIn |-> DefaultExpiresIn, secretKey |-> ""]
    ELSE [enabled |-> c.enabled,
          expiresIn |-> IF c.expiresIn = 0 THEN DefaultExpiresIn ELSE c.expiresIn,
          secretKey |-> c.secretKey]

\* The path elements of an absolute, cleaned path.
AbsElems(full) ==
    LET e == Elements(full)
    IN  SelectSeq(e, LAMBDA x : x # <<>>)

BaseDir == AbsElems(BasePath)

\* getFullPath without its check for "..": the cleaned path is joined as it is.
getFullPath_NoTraversalCheck(path) ==
    [err |-> "OK",
     full |-> AbsElems(Join(BasePath, TrimPrefix(Clean(path), <<"/">>)))]

\* The result of getFullPath: the error, or the absolute path.
getFullPath(path) ==
    LET cleanPath == Clean(path)
    IN  IF Contains(cleanPath, DotDot)
            THEN [err |-> "INVALID_PATH", full |-> <<>>]
        ELSE [err |-> "OK",
              full |-> AbsElems(Join(BasePath, TrimPrefix(cleanPath, <<"/">>)))]

----------------------------------------------------------------------------
(* The operating system's file operations *)

DirNode == [dir |-> TRUE, data |-> <<>>]
FileNode(d) == [dir |-> FALSE, data |-> d]

IsPrefixOf(a, b) == Len(a) <= Len(b) /\ SubSeq(b, 1, Len(a)) = a
\* filepath.Dir of an absolute path
Dir(f) == IF f = <<>> THEN <<>> ELSE SubSeq(f, 1, Len(f) - 1)
Prefixes(f) == {SubSeq(f, 1, k) : k \in 0..Len(f)}
Below(fsys, f) == {g \in DOMAIN fsys : IsPrefixOf(f, g)}
Children(fsys, f) == {g \in DOMAIN fsys : Len(g) = Len(f) + 1 /\ IsPrefixOf(f, g)}
Without(fsys, gone) == [g \in (DOMAIN fsys) \ gone |-> fsys[g]]

\* file.Write at offset off of an open file: the bytes land at off..off+n-1,
\* the file grows (zero-filled) when it is shorter.
WriteAt(data, off, bytes) ==
    LET n == IF Len(data) > off + Len(bytes) THEN Len(data) ELSE off + Len(bytes)
    IN  [i \in 1..n |->
            IF i > off /\ i <= off + Len(bytes) THEN bytes[i - off]
            ELSE IF i <= Len(data) THEN data[i]
            ELSE 0]

\* os.Stat / os.Open: the errno
Stat(fsys, f) ==
    IF f \in DOMAIN fsys THEN "OK"
    ELSE IF \E g \in Prefixes(f) : g \in DOMAIN fsys /\ ~fsys[g].dir THEN "ENOTDIR"
    ELSE "ENOENT"

\* os.MkdirAll(d): nothing is created when a component of d is a file.
MkdirAll(fsys, d) ==
    IF \E g \in Prefixes(d) : g \in DOMAIN fsys /\ ~fsys[g].dir
        THEN [err |-> "ENOTDIR", fs |-> fsys]
    ELSE [err |-> "OK",
          fs  |-> [g \in (DOMAIN fsys) \cup Prefixes(d) |->
                      IF g \in DOMAIN fsys THEN fsys[g] ELSE DirNode]]

\* os.OpenFile(f, O_RDWR|O_CREATE): an existing file keeps its bytes.
Create_NoTruncate(fsys, f) ==
    IF f \in DOMAIN fsys
        THEN IF fsys[f].dir THEN [err |-> "EISDIR", fs |-> fsys]
             ELSE [err |-> "OK", fs |-> fsys]
    ELSE IF Stat(fsys, Dir(f)) # "OK" THEN [err |-> Stat(fsys, Dir(f)), fs |-> fsys]
    ELSE IF ~fsys[Dir(f)].dir THEN [err |-> "ENOTDIR", fs |-> fsys]
    ELSE [err |-> "OK", fs |-> (f :> FileNode(<<>>)) @@ fsys]

\* os.Create(f): O_RDWR|O_CREATE|O_TRUNC
Create(fsys, f) ==
    IF f \in DOMAIN fsys
        THEN IF fsys[f].dir THEN [err |-> "EISDIR", fs |-> fsys]
             ELSE [err |-> "OK", fs |-> [fsys EXCEPT ![f] = FileNode(<<>>)]]
    ELSE IF Stat(fsys, Dir(f)) # "OK" THEN [err |-> Stat(fsys, Dir(f)), fs |-> fsys]
    ELSE IF ~fsys[Dir(f)].dir THEN [err |-> "ENOTDIR", fs |-> fsys]
    ELSE [err |-> "OK", fs |-> (f :> FileNode(<<>>)) @@ fsys]

\* os.Remove(f): a file, or an empty directory
Remove(fsys, f) ==
    IF f \notin DOMAIN fsys THEN [err |-> Stat(fsys, f), fs |-> fsys]
    ELSE IF f = <<>> THEN [err |-> "EBUSY", fs |-> fsys]
    ELSE IF fsys[f].dir /\ Children(fsys, f) # {} THEN [err |-> "ENOTEMPTY", fs |-> fsys]
    ELSE [err |-> "OK", fs |-> Without(fsys, {f})]

\* os.RemoveAll(f)
RemoveAll(fsys, f) ==
    IF f = <<>> THEN [err |-> "EBUSY", fs |-> fsys]
    ELSE [err |-> "OK", fs |-> Without(fsys, Below(fsys, f))]

\* os.Rename(s, d) (rename(2)); d's parent exists
Rename(fsys, s, d) ==
    IF s \notin DOMAIN fsys THEN [err |-> Stat(fsys, s), fs |-> fsys]
    ELSE IF Stat(fsys, Dir(d)) # "OK" THEN [err |-> Stat(fsys, Dir(d)), fs |-> fsys]
    ELSE IF ~fsys[Dir(d)].dir THEN [err |-> "ENOTDIR", fs |-> fsys]
    ELSE IF s = d THEN [err |-> "OK", fs |-> fsys]
    ELSE IF s = <<>> \/ d = <<>> THEN [err |-> "EBUSY", fs |-> fsys]
    ELSE IF IsPrefixOf(s, d) /\ fsys[s].dir THEN [err |-> "EINVAL", fs |-> fsys]
    ELSE IF d \in DOMAIN fsys /\ ~fsys[s].dir /\ fsys[d].dir
        THEN [err |-> "EISDIR", fs |-> fsys]
    ELSE IF d \in DOMAIN fsys /\ fsys[s].dir /\ ~fsys[d].dir
        THEN [err |-> "ENOTDIR", fs |-> fsys]
    ELSE IF d \in DOMAIN fsys /\ fsys[d].dir /\ Children(fsys, d) # {}
        THEN [err |-> "ENOTEMPTY", fs |-> fsys]
    ELSE LET moved == Below(fsys, s)
             rest  == Without(fsys, moved \cup {d})
             to(g) == d \o SubSeq(g, Len(s) + 1, Len(g))
         IN  [err |-> "OK",
              fs  |-> [g \in (DOMAIN rest) \cup {to(h) : h \in moved} |->
                          IF g \in DOMAIN rest THEN rest[g]
                          ELSE fsys[CHOOSE h \in moved : to(h) = g]]]

----------------------------------------------------------------------------
(* The callers' inputs *)

\* Logical paths handed to the provider: relative, rooted, with "." and ".."
\* elements, with repeated separators, and with a name that contains two dots.
Paths ==
    { <<"a">>, <<"/", ".", ".", "/", "a">>, <<".", "/", "/", "b">>, <<"a", "/", "b">>,
      <<"a", "/", ".", ".", "/", ".", ".", "/", "o">>, <<"b", ".", ".", "a">>, <<"/">> }

\* getFullPath of every path the callers hand in, computed once.
\* The paths of the requests for signed URLs and downloads: two spellings of
\* one file, and a path that climbs out of the base path
RequestPaths ==
    { <<"a">>, <<"/", "a">>, <<"a", "/", ".", ".", "/", ".", ".", "/", "o">> }

\* fmt.Sprintf("%x", b) for a byte slice b: two lower-case digits a byte
HexDigits == <<"0", "1", "2", "3", "4", "5", "6", "7", "8", "9", "a", "b", "c", "d", "e", "f">>

RECURSIVE Hex(_)
Hex(b) ==
    IF b = <<>> THEN <<>>
    ELSE <<HexDigits[(Head(b) \div 16) + 1], HexDigits[(Head(b) % 16) + 1]>> \o Hex(Tail(b))

\* generateUniqueFilename that returns the name it was given
generateUniqueFilename_NoSuffix(originalFilename, uniqueID) == originalFilename

\* generateUniqueFilename(originalFilename), uniqueID being the four bytes
\* rand.Read filled
generateUniqueFilename(originalFilename, uniqueID) ==
    LET ext == Ext(originalFilename)
        nameWithoutExt == TrimSuffix(originalFilename, ext)
        uniqueStr == Hex(uniqueID)
    IN  IF ext # <<>> THEN nameWithoutExt \o <<"_">> \o uniqueStr \o ext
        ELSE nameWithoutExt \o <<"_">> \o uniqueStr

\* The stored name with an explicit name taken as it is, without the extension
StoredName_NoExt(filename, destinationFileName, uniqueID) ==
    IF destinationFileName # <<>> THEN destinationFileName
    ELSE generateUniqueFilename(filename, uniqueID)

\* The file name UploadFromUploadedFile stores the file under
StoredName(filename, destinationFileName, uniqueID) ==
    IF destinationFileName # <<>> THEN destinationFileName \o Ext(filename)
    ELSE generateUniqueFilename(filename, uniqueID)

\* filePath assembled without stripping the trailing slash
FilePath_NoTrim(destinationDir, fileName) == destinationDir \o <<"/">> \o fileName

\* filePath in UploadFromUploadedFile
FilePath(destinationDir, fileName) ==
    TrimSuffix(destinationDir, <<"/">>) \o <<"/">> \o fileName

\* The names of the staged files, with and without an extension
Filenames == { <<"d", ".", "t">>, <<"d">> }

\* The destinationDir arguments
DestinationDirs == { <<"u">>, <<"u", "/">> }

\* The destinationFileName arguments: none, and a name
DestinationFileNames == { <<>>, <<"n">> }

\* The values of the four random bytes the model follows
UniqueIDs == { <<0, 0, 0, 0>>, <<0, 0, 0, 1>>, <<171, 205, 239, 16>> }

\* The paths the upload pipeline stores files at
\* The Filename values of the files staged for UploadFromCtx: also a name
\* with two dots, and a second name with the extension ".t"
StagedFilenames == Filenames \cup { <<"d", ".", "t", ".", "g">>, <<"e", ".", "t">> }

\* The destinationDir arguments of UploadFromCtx: also a rooted directory, the
\* root, and a directory with two trailing slashes
BatchDirs == DestinationDirs \cup { <<"/", "u">>, <<"/">>, <<"u", "/", "/">> }

PipelinePaths ==
    { FilePath(d, StoredName(f, n, u)) :
        d \in BatchDirs, f \in StagedFilenames, n \in DestinationFileNames, u \in UniqueIDs }

FullPath == [p \in Paths \cup RequestPaths \cup PipelinePaths |-> getFullPath(p)]

----------------------------------------------------------------------------
(* FileSystemProvider *)

\* What a provider call returns, with the filesystem it leaves.  acc tells
\* whether the call reached the operating system at all.
Ret(fsys, err, msg, acc) ==
    [fs |-> fsys, err |-> err, msg |-> msg, acc |-> acc, data |-> <<>>,
     size |-> 0, exists |-> FALSE, isDir |-> FALSE, entries |-> {}]

\* Upload that returns the write error and leaves what was written.
Upload_NoCleanup(fsys, path, content, failAt) ==
    LET gp == FullPath[path] IN
    IF gp.err # "OK" THEN Ret(fsys, gp.err, "invalid path", FALSE)
    ELSE LET mk == MkdirAll(fsys, Dir(gp.full)) IN
    IF mk.err # "OK" THEN Ret(mk.fs, "UPLOAD_FAILED", "failed to create directory", TRUE)
    ELSE LET cr == Create(mk.fs, gp.full) IN
    IF cr.err # "OK" THEN Ret(cr.fs, "UPLOAD_FAILED", "failed to create file", TRUE)
    ELSE IF failAt >= 0
        THEN Ret([cr.fs EXCEPT ![gp.full] =
                     FileNode(WriteAt(cr.fs[gp.full].data, 0, SubSeq(content, 1, failAt)))],
                 "UPLOAD_FAILED", "failed to write file", TRUE)
    ELSE [Ret([cr.fs EXCEPT ![gp.full] = FileNode(WriteAt(cr.fs[gp.full].data, 0, content))],
              "OK", "", TRUE)
             EXCEPT !.size = Len(content)]

\* Upload(path, reader): the reader delivers content; with failAt >= 0 the
\* copy fails after failAt bytes were written (a read or a write error).
Upload(fsys, path, content, failAt) ==
    LET gp == FullPath[path] IN
    IF gp.err # "OK" THEN Ret(fsys, gp.err, "invalid path", FALSE)
    ELSE LET mk == MkdirAll(fsys, Dir(gp.full)) IN
    IF mk.err # "OK" THEN Ret(mk.fs, "UPLOAD_FAILED", "failed to create directory", TRUE)
    ELSE LET cr == Create(mk.fs, gp.full) IN
    IF cr.err # "OK" THEN Ret(cr.fs, "UPLOAD_FAILED", "failed to create file", TRUE)
    ELSE IF failAt >= 0
        THEN LET partial == [cr.fs EXCEPT ![gp.full] =
                                FileNode(WriteAt(cr.fs[gp.full].data, 0, SubSeq(content, 1, failAt)))]
             IN  Ret(Remove(partial, gp.full).fs, "UPLOAD_FAILED", "failed to write file", TRUE)
    ELSE [Ret([cr.fs EXCEPT ![gp.full] = FileNode(WriteAt(cr.fs[gp.full].data, 0, content))],
              "OK", "", TRUE)
             EXCEPT !.size = Len(content)]

\* Download(path): the stream read to its end, and the FileInfo
Download(fsys, path) ==
    LET gp == FullPath[path] IN
    IF gp.err # "OK" THEN Ret(fsys, gp.err, "invalid path", FALSE)
    ELSE LET st == Stat(fsys, gp.full) IN
    IF st = "ENOENT" THEN Ret(fsys, "FILE_NOT_FOUND", "file not found", TRUE)
    ELSE IF st # "OK" THEN Ret(fsys, "DOWNLOAD_FAILED", "failed to stat file", TRUE)
    ELSE IF fsys[gp.full].dir THEN Ret(fsys, "INVALID_PATH", "path is a directory", TRUE)
    ELSE [Ret(fsys, "OK", "", TRUE)
             EXCEPT !.data = fsys[gp.full].data, !.size = Len(fsys[gp.full].data)]

\* Delete(path)
Delete(fsys, path) ==
    LET gp == FullPath[path] IN
    IF gp.err # "OK" THEN Ret(fsys, gp.err, "invalid path", FALSE)
    ELSE LET st == Stat(fsys, gp.full) IN
    IF st = "ENOENT" THEN Ret(fsys, "FILE_NOT_FOUND", "file not found", TRUE)
    ELSE IF st # "OK" THEN Ret(fsys, "DELETE_FAILED", "failed to stat file", TRUE)
    ELSE LET rm == Remove(fsys, gp.full) IN
    IF rm.err # "OK" THEN Ret(rm.fs, "DELETE_FAILED", "failed to delete file", TRUE)
    ELSE Ret(rm.fs, "OK", "", TRUE)

\* Exists(path)
Exists(fsys, path) ==
    LET gp == FullPath[path] IN
    IF gp.err # "OK" THEN Ret(fsys, gp.err, "invalid path", FALSE)
    ELSE LET st == Stat(fsys, gp.full) IN
    IF st = "ENOENT" THEN Ret(fsys, "OK", "", TRUE)
    ELSE IF st # "OK" THEN Ret(fsys, "INTERNAL_ERROR", "failed to check file existence", TRUE)
    ELSE [Ret(fsys, "OK", "", TRUE) EXCEPT !.exists = TRUE]

\* GetInfo(path)
GetInfo(fsys, path) ==
    LET gp == FullPath[path] IN
    IF gp.err # "OK" THEN Ret(fsys, gp.err, "invalid path", FALSE)
    ELSE LET st == Stat(fsys, gp.full) IN
    IF st = "ENOENT" THEN Ret(fsys, "FILE_NOT_FOUND", "file not found", TRUE)
    ELSE IF st # "OK" THEN Ret(fsys, "INTERNAL_ERROR", "failed to get file info", TRUE)
    ELSE [Ret(fsys, "OK", "", TRUE)
             EXCEPT !.size = Len(fsys[gp.full].data), !.isDir = fsys[gp.full].dir]

\* List(path): one entry per immediate child
List(fsys, path) ==
    LET gp == FullPath[path] IN
    IF gp.err # "OK" THEN Ret(fsys, gp.err, "invalid path", FALSE)
    ELSE LET st == Stat(fsys, gp.full) IN
    IF st = "ENOENT" THEN Ret(fsys, "DIRECTORY_NOT_FOUND", "directory not found", TRUE)
    ELSE IF st # "OK" THEN Ret(fsys, "LIST_FAILED", "failed to stat directory", TRUE)
    ELSE IF ~fsys[gp.full].dir THEN Ret(fsys, "INVALID_PATH", "path is not a directory", TRUE)
    ELSE [Ret(fsys, "OK", "", TRUE)
             EXCEPT !.isDir = TRUE,
                    !.entries = {[name |-> g[Len(g)], isDir |-> fsys[g].dir,
                                  size |-> Len(fsys[g].data)] : g \in Children(fsys, gp.full)}]

\* DeleteDirectory(path)
DeleteDirectory(fsys, path) ==
    LET gp == FullPath[path] IN
    IF gp.err # "OK" THEN Ret(fsys, gp.err, "invalid path", FALSE)
    ELSE LET st == Stat(fsys, gp.full) IN
    IF st = "ENOENT" THEN Ret(fsys, "DIRECTORY_NOT_FOUND", "directory not found", TRUE)
    ELSE IF st # "OK" THEN Ret(fsys, "DELETE_FAILED", "failed to stat directory", TRUE)
    ELSE IF ~fsys[gp.full].dir THEN Ret(fsys, "INVALID_PATH", "path is not a directory", TRUE)
    ELSE LET rm == RemoveAll(fsys, gp.full) IN
    IF rm.err # "OK" THEN Ret(rm.fs, "DELETE_FAILED", "failed to delete directory", TRUE)
    ELSE Ret(rm.fs, "OK", "", TRUE)

\* Copy(srcPath, dstPath); with writeFails the copy of the data fails.
Copy(fsys, srcPath, dstPath, writeFails) ==
    LET sp == FullPath[srcPath] IN
    IF sp.err # "OK" THEN Ret(fsys, sp.err, "invalid path", FALSE)
    ELSE LET dp == FullPath[dstPath] IN
    IF dp.err # "OK" THEN Ret(fsys, dp.err, "invalid path", FALSE)
    ELSE LET st == Stat(fsys, sp.full) IN
    IF st = "ENOENT" THEN Ret(fsys, "FILE_NOT_FOUND", "file not found", TRUE)
    ELSE IF st # "OK" THEN Ret(fsys, "COPY_FAILED", "failed to open source file", TRUE)
    ELSE LET mk == MkdirAll(fsys, Dir(dp.full)) IN
    IF mk.err # "OK"
        THEN Ret(mk.fs, "COPY_FAILED", "failed to create destination directory", TRUE)
    ELSE LET cr == Create(mk.fs, dp.full) IN
    IF cr.err # "OK" THEN Ret(cr.fs, "COPY_FAILED", "failed to create destination file", TRUE)
    ELSE IF cr.fs[sp.full].dir \/ writeFails
        THEN Ret(Remove(cr.fs, dp.full).fs, "COPY_FAILED", "failed to copy file data", TRUE)
    \* io.Copy reads the source as it is after the destination was created
    ELSE Ret([cr.fs EXCEPT ![dp.full] =
                 FileNode(WriteAt(cr.fs[dp.full].data, 0, cr.fs[sp.full].data))], "OK", "", TRUE)

\* What the operating system may refuse during a Move: nothing, the rename
\* (another device), and after it the fallback's copy or the removal of the
\* source.  The rename of a path onto itself does nothing and is not refused.
OsFailures == {"none", "rename", "copy", "remove"}

\* Move whose fallback copies and does not delete the source.
Move_KeepsSource(fsys, srcPath, dstPath, osFails) ==
    LET sp == FullPath[srcPath] IN
    IF sp.err # "OK" THEN Ret(fsys, sp.err, "invalid path", FALSE)
    ELSE LET dp == FullPath[dstPath] IN
    IF dp.err # "OK" THEN Ret(fsys, dp.err, "invalid path", FALSE)
    ELSE LET mk == MkdirAll(fsys, Dir(dp.full)) IN
    IF mk.err # "OK"
        THEN Ret(mk.fs, "MOVE_FAILED", "failed to create destination directory", TRUE)
    ELSE LET rn == Rename(mk.fs, sp.full, dp.full) IN
    IF rn.err = "OK" /\ (osFails = "none" \/ sp.full = dp.full) THEN Ret(rn.fs, "OK", "", TRUE)
    ELSE LET cp == Copy(mk.fs, srcPath, dstPath, osFails = "copy") IN
    IF cp.err # "OK" THEN cp
    ELSE Ret(cp.fs, "OK", "", TRUE)

\* Move whose fallback leaves the copy when the source cannot be deleted.
Move_NoCleanup(fsys, srcPath, dstPath, osFails) ==
    LET sp == FullPath[srcPath] IN
    IF sp.err # "OK" THEN Ret(fsys, sp.err, "invalid path", FALSE)
    ELSE LET dp == FullPath[dstPath] IN
    IF dp.err # "OK" THEN Ret(fsys, dp.err, "invalid path", FALSE)
    ELSE LET mk == MkdirAll(fsys, Dir(dp.full)) IN
    IF mk.err # "OK"
        THEN Ret(mk.fs, "MOVE_FAILED", "failed to create destination directory", TRUE)
    ELSE LET rn == Rename(mk.fs, sp.full, dp.full) IN
    IF rn.err = "OK" /\ (osFails = "none" \/ sp.full = dp.full) THEN Ret(rn.fs, "OK", "", TRUE)
    ELSE LET cp == Copy(mk.fs, srcPath, dstPath, osFails = "copy") IN
    IF cp.err # "OK" THEN cp
    ELSE IF osFails = "remove"
        THEN Ret(cp.fs, "DELETE_FAILED", "failed to delete file", TRUE)
    ELSE Delete(cp.fs, srcPath)

\* Move(srcPath, dstPath)
Move(fsys, srcPath, dstPath, osFails) ==
    LET sp == FullPath[srcPath] IN
    IF sp.err # "OK" THEN Ret(fsys, sp.err, "invalid path", FALSE)
    ELSE LET dp == FullPath[dstPath] IN
    IF dp.err # "OK" THEN Ret(fsys, dp.err, "invalid path", FALSE)
    ELSE LET mk == MkdirAll(fsys, Dir(dp.full)) IN
    IF mk.err # "OK"
        THEN Ret(mk.fs, "MOVE_FAILED", "failed to create destination directory", TRUE)
    ELSE LET rn == Rename(mk.fs, sp.full, dp.full) IN
    IF rn.err = "OK" /\ (osFails = "none" \/ sp.full = dp.full) THEN Ret(rn.fs, "OK", "", TRUE)
    ELSE LET cp == Copy(mk.fs, srcPath, dstPath, osFails = "copy") IN
    IF cp.err # "OK" THEN cp
    ELSE LET del == IF osFails = "remove"
                        THEN Ret(cp.fs, "DELETE_FAILED", "failed to delete file", TRUE)
                    ELSE Delete(cp.fs, srcPath) IN
    IF del.err # "OK" THEN [del EXCEPT !.fs = Delete(cp.fs, dstPath).fs]
    ELSE Ret(del.fs, "OK", "", TRUE)

----------------------------------------------------------------------------
(* Construction: StorageConfig.Validate and New *)

\* A nil pointer (a record, to be comparable with the structures pointed to)
Nil == [nil |-> TRUE]

\* config.FileSystem: nil, or a FileSystemConfig
FileSystemConfigs == [BasePath : {<<>>, BasePath}, CreateDirs : BOOLEAN]

\* config.S3: a complete S3Config, and one without a bucket
S3Configs ==
    [Region : {"us"}, Bucket : {"", "b"}, AccessKeyID : {"k"}, SecretAccessKey : {"s"}]

\* The configurations New is called with
StorageConfigs ==
    [Name : {"", "n"}, Provider : {"", "filesystem", "s3", "ftp"},
     FileSystem : {Nil} \cup FileSystemConfigs, S3 : {Nil} \cup S3Configs]

\* (c *FileSystemConfig) Validate(): the error, or "OK"
FileSystemConfigValidate(c) ==
    IF c.BasePath = <<>> THEN "basePath is required for filesystem provider" ELSE "OK"

\* (c *S3Config) Validate()
S3ConfigValidate(c) ==
    IF c.Region = "" THEN "region is required for s3 provider"
    ELSE IF c.Bucket = "" THEN "bucket is required for s3 provider"
    ELSE IF c.AccessKeyID = "" THEN "accessKeyId is required for s3 provider"
    ELSE IF c.SecretAccessKey = "" THEN "secretAccessKey is required for s3 provider"
    ELSE "OK"

\* (c *StorageConfig) Validate()
Validate(c) ==
    IF c.Name = "" THEN "storage name is required"
    ELSE IF c.Provider = "" THEN "provider is required"
    ELSE IF c.Provider = "filesystem"
        THEN IF c.FileSystem = Nil
                 THEN "filesystem configuration is required when provider is filesystem"
             ELSE FileSystemConfigValidate(c.FileSystem)
    ELSE IF c.Provider = "s3"
        THEN IF c.S3 = Nil THEN "s3 configuration is required when provider is s3"
             ELSE S3ConfigValidate(c.S3)
    ELSE "unsupported provider"

\* NewFileSystemProvider(config): mkdirFails tells whether the operating
\* system refuses to create the base directory.
NewFileSystemProvider(c, fsys, mkdirFails) ==
    IF c.FileSystem = Nil THEN [err |-> "INVALID_CONFIG", provider |-> "", fs |-> fsys]
    ELSE IF ~c.FileSystem.CreateDirs
        THEN [err |-> "OK", provider |-> "FileSystemProvider", fs |-> fsys]
    ELSE LET mk == MkdirAll(fsys, AbsElems(c.FileSystem.BasePath)) IN
    IF mkdirFails \/ mk.err # "OK"
        THEN [err |-> "INTERNAL_ERROR", provider |-> "", fs |-> fsys]
    ELSE [err |-> "OK", provider |-> "FileSystemProvider", fs |-> mk.fs]

\* NewS3Provider(config)
NewS3Provider(c, fsys) ==
    IF c.S3 = Nil THEN [err |-> "INVALID_CONFIG", provider |-> "", fs |-> fsys]
    ELSE [err |-> "OK", provider |-> "S3Provider", fs |-> fsys]

\* New that builds the provider without validating the configuration
New_WithoutValidate(c, fsys, mkdirFails) ==
    IF c.Provider \notin {"filesystem", "s3"}
        THEN [err |-> "INVALID_PROVIDER", storage |-> Nil, fs |-> fsys]
    ELSE LET np == IF c.Provider = "filesystem"
                       THEN NewFileSystemProvider(c, fsys, mkdirFails)
                   ELSE NewS3Provider(c, fsys) IN
    IF np.err # "OK" THEN [err |-> np.err, storage |-> Nil, fs |-> np.fs]
    ELSE [err |-> "OK", storage |-> [provider |-> np.provider, config |-> c], fs |-> np.fs]

\* New(config): the error, the *Storage (or nil) and the filesystem it leaves
New(c, fsys, mkdirFails) ==
    IF Validate(c) # "OK" THEN [err |-> Validate(c), storage |-> Nil, fs |-> fsys]
    ELSE IF c.Provider \notin {"filesystem", "s3"}
        THEN [err |-> "INVALID_PROVIDER", storage |-> Nil, fs |-> fsys]
    ELSE LET np == IF c.Provider = "filesystem"
                       THEN NewFileSystemProvider(c, fsys, mkdirFails)
                   ELSE NewS3Provider(c, fsys) IN
    IF np.err # "OK" THEN [err |-> np.err, storage |-> Nil, fs |-> np.fs]
    ELSE [err |-> "OK", storage |-> [provider |-> np.provider, config |-> c], fs |-> np.fs]

\* The filesystem before any facade is constructed: the base directory does
\* not exist yet.
BareFs == (<<>> :> DirNode) @@ (<<<<"o">>>> :> FileNode(<<7>>))

\* The facade of the specifications that start after construction: a
\* filesystem backend at BasePath, created by New.
TheStorage ==
    New([Name |-> "n", Provider |-> "filesystem",
         FileSystem |-> [BasePath |-> BasePath, CreateDirs |-> TRUE], S3 |-> Nil],
        BareFs, FALSE).storage

----------------------------------------------------------------------------
(* The callers' inputs, continued *)

\* File contents (bytes)
Contents == { <<1, 2>>, <<3>> }

\* The content of the file that lies outside the base path
Secret == <<7>>

\* After NewFileSystemProvider with CreateDirs: the base directory exists and
\* is empty; beside it, outside the base path, lies a file.
InitFs == (<<>> :> DirNode) @@ (BaseDir :> DirNode) @@ (<<<<"o">>>> :> FileNode(Secret))

NoCall ==
    [op |-> "none", path |-> <<>>, path2 |-> <<>>, input |-> <<>>, err |-> "OK",
     msg |-> "", acc |-> FALSE, data |-> <<>>, size |-> 0, exists |-> FALSE,
     isDir |-> FALSE, entries |-> {}, token |-> <<>>, operation |-> "",
     expiresIn |-> 0, tParse |-> 0, tCheck |-> 0]

\* No request has been answered.
NoResponse ==
    [status |-> 0, headers |-> FALSE, body |-> <<>>, location |-> <<>>,
     path |-> <<>>, hasToken |-> FALSE, token |-> <<>>, signedUrl |-> FALSE,
     tParse |-> 0, tCheck |-> 0]

\* No UploadFromCtx call has been made.
NoBatch ==
    [status |-> "idle", staged |-> <<>>, destinationDir |-> <<>>,
     destinationFileName |-> <<>>, order |-> <<>>, next |-> 1, attempts |-> <<>>,
     results |-> <<>>, err |-> ""]

\* The record of a provider call that returned r.
Call(op, path, path2, input, r) ==
    [op |-> op, path |-> path, path2 |-> path2, input |-> input, err |-> r.err,
     msg |-> r.msg, acc |-> r.acc, data |-> r.data, size |-> r.size,
     exists |-> r.exists, isDir |-> r.isDir, entries |-> r.entries, token |-> <<>>,
     operation |-> "", expiresIn |-> 0, tParse |-> 0, tCheck |-> 0]

----------------------------------------------------------------------------
(* The provider's operations, called one at a time *)

\* The deepest directory nesting the model follows (the base directory is level 1).
MaxDepth == 3

Idle == last.op = "none" /\ resp = NoResponse

\* A call returns r: the filesystem is as the call left it, and the caller
\* holds the result until it moves on (Forget).
Returns(op, path, path2, input, r) ==
    /\ \A g \in DOMAIN r.fs : Len(g) <= MaxDepth
    /\ fs' = r.fs
    /\ last' = Call(op, path, path2, input, r)
    /\ UNCHANGED <<config, now, issued, resp, procs, batch, facades>>

\* The caller drops the result of its last call.
Forget ==
    /\ ~Idle
    /\ last' = NoCall
    /\ resp' = NoResponse
    /\ UNCHANGED <<config, fs, now, issued, procs, batch, facades>>

DoUpload ==
    /\ Idle
    /\ \E p \in Paths, c \in Contents :
        \E k \in -1..Len(c) : Returns("Upload", p, <<>>, c, Upload(fs, p, c, k))

\* A download may follow another call directly: the caller reads back what
\* the call left.
DoDownload ==
    /\ last.op # "Download"
    /\ \E p \in Paths : Returns("Download", p, <<>>, <<>>, Download(fs, p))

DoDelete == Idle /\ \E p \in Paths : Returns("Delete", p, <<>>, <<>>, Delete(fs, p))

DoExists == Idle /\ \E p \in Paths : Returns("Exists", p, <<>>, <<>>, Exists(fs, p))

DoGetInfo == Idle /\ \E p \in Paths : Returns("GetInfo", p, <<>>, <<>>, GetInfo(fs, p))

DoList == Idle /\ \E p \in Paths : Returns("List", p, <<>>, <<>>, List(fs, p))

DoDeleteDirectory ==
    Idle /\ \E p \in Paths : Returns("DeleteDirectory", p, <<>>, <<>>, DeleteDirectory(fs, p))

DoCopy ==
    Idle /\ \E p \in Paths, q \in Paths, w \in BOOLEAN :
        Returns("Copy", p, q, <<>>, Copy(fs, p, q, w))

DoMove ==
    Idle /\ \E p \in Paths, q \in Paths, f \in OsFailures :
        Returns("Move", p, q, <<>>, Move(fs, p, q, f))

Init ==
    /\ config = SignedConfig
    /\ fs = InitFs
    /\ last = NoCall
    /\ now = 0
    /\ issued = {}
    /\ resp = NoResponse
    /\ procs = <<>>
    /\ batch = NoBatch
    /\ facades = <<TheStorage>>

Next ==
    \/ DoUpload
    \/ DoDownload
    \/ DoDelete
    \/ DoExists
    \/ DoGetInfo
    \/ DoList
    \/ DoDeleteDirectory
    \/ DoCopy
    \/ DoMove
    \/ Forget

Spec == Init /\ [][Next]_vars

----------------------------------------------------------------------------
(* Properties of the provider's operations (specification Spec) *)

IsFile(fsys, f) == f \in DOMAIN fsys /\ ~fsys[f].dir

\* C2: nothing outside the configured base path is ever created, modified or
\* removed by the provider's operations, whatever logical paths they are given:
\* every accepted logical path resolves at or below the base path, and what lay
\* outside the base path at construction lies there unchanged.
C2_NothingOutsideBase ==
    /\ \A p \in Paths : FullPath[p].err = "OK" => IsPrefixOf(BaseDir, FullPath[p].full)
    /\ \A g \in (DOMAIN fs) \cup (DOMAIN InitFs) :
           ~IsPrefixOf(BaseDir, g) =>
               g \in DOMAIN fs /\ g \in DOMAIN InitFs /\ fs[g] = InitFs[g]

\* An upload through a rooted path with a ".." element succeeded and wrote a file.
C2_Witness ==
    /\ last.op = "Upload"
    /\ last.path = <<"/", ".", ".", "/", "a">>
    /\ last.err = "OK"
    /\ IsFile(fs, BaseDir \o <<<<"a">>>>)

\* C3: a download of p that directly follows a successful upload of content C
\* to p succeeds and yields exactly C, and the sizes reported by the upload and
\* by the download both equal len(C).
C3_RoundTrip ==
    [][(last.op = "Upload" /\ last.err = "OK" /\ last'.op = "Download"
            /\ last'.path = last.path)
        => (/\ last'.err = "OK"
            /\ last'.data = last.input
            /\ last'.size = Len(last.input)
            /\ last.size = Len(last.input))]_vars

\* A download returned the bytes of an upload over a file that held other bytes.
C3_Witness ==
    /\ last.op = "Download"
    /\ last.err = "OK"
    /\ last.data = <<3>>
    /\ last.size = 1

\* C7 (as claimed): a successful Copy(src, dst) of a stored regular file leaves
\* src as it was and dst a regular file with the bytes src had before the call.
C7_CopyKeepsSource ==
    [][(Idle /\ last'.op = "Copy" /\ last'.err = "OK"
            /\ IsFile(fs, FullPath[last'.path].full))
        => LET src == FullPath[last'.path].full
               dst == FullPath[last'.path2].full
           IN  /\ IsFile(fs', src) /\ fs'[src] = fs[src]
               /\ IsFile(fs', dst) /\ fs'[dst].data = fs[src].data]_vars

\* C8 (as claimed): a successful Move(src, dst) of a stored regular file leaves
\* src absent and dst a regular file with the bytes src had before the call.
C8_MoveAsClaimed ==
    [][(Idle /\ last'.op = "Move" /\ last'.err = "OK"
            /\ IsFile(fs, FullPath[last'.path].full))
        => LET src == FullPath[last'.path].full
               dst == FullPath[last'.path2].full
           IN  /\ src \notin DOMAIN fs' /\ ~Exists(fs', last'.path).exists
               /\ IsFile(fs', dst) /\ fs'[dst].data = fs[src].data]_vars

\* C8 (amended): when src and dst resolve to different files, a successful
\* Move(src, dst) of a stored regular file leaves src absent and dst a regular
\* file with the bytes src had before the call, by the rename and by the
\* copy-then-delete fallback alike.
C8_MoveToAnotherFile ==
    [][(Idle /\ last'.op = "Move" /\ last'.err = "OK"
            /\ IsFile(fs, FullPath[last'.path].full)
            /\ FullPath[last'.path].full # FullPath[last'.path2].full)
        => LET src == FullPath[last'.path].full
               dst == FullPath[last'.path2].full
           IN  /\ src \notin DOMAIN fs' /\ ~Exists(fs', last'.path).exists
               /\ IsFile(fs', dst) /\ fs'[dst].data = fs[src].data]_vars

\* A move of a file onto another path succeeded: the file is at the destination.
C8_Witness ==
    /\ last.op = "Move"
    /\ last.err = "OK"
    /\ last.path = <<"a">>
    /\ last.path2 = <<".", "/", "/", "b">>
    /\ ~IsFile(fs, FullPath[last.path].full)
    /\ IsFile(fs, FullPath[last.path2].full)
    /\ fs[FullPath[last.path2].full].data = <<1, 2>>

\* C9: when Upload returns the error of a failed write, no file is at the
\* path: Exists answers false, and Download and GetInfo answer FileNotFound.
C9_NoPartialFile ==
    (last.op = "Upload" /\ last.msg = "failed to write file")
        => /\ last.err = "UPLOAD_FAILED"
           /\ FullPath[last.path].full \notin DOMAIN fs
           /\ ~Exists(fs, last.path).exists
           /\ Download(fs, last.path).err = "FILE_NOT_FOUND"
           /\ GetInfo(fs, last.path).err = "FILE_NOT_FOUND"

\* An upload failed while writing.
C9_Witness ==
    /\ last.op = "Upload"
    /\ last.msg = "failed to write file"
    /\ last.path = <<"a", "/", "b">>
    /\ IsPrefixOf(BaseDir, FullPath[last.path].full)
    /\ Dir(FullPath[last.path].full) \in DOMAIN fs

----------------------------------------------------------------------------
(* Signed URLs of the filesystem provider *)

\* SignedURLOperation
SignedURLOperations == {"GET", "PUT"}

\* A token string, by what it decodes to: its shape, the header's alg, the
\* key its signature was made with, and the claims.
Token(alg, key, path, op, exp, iat) ==
    [shape |-> "jwt", alg |-> alg, key |-> key, path |-> path, op |-> op,
     exp |-> exp, iat |-> iat]

\* A string that is no JWT
Garbage ==
    [shape |-> "garbage", alg |-> "", key |-> "", path |-> <<>>, op |-> "",
     exp |-> 0, iat |-> 0]

\* The result of a signed-URL call
TokRet(err, msg, token) == [err |-> err, msg |-> msg, token |-> token]

\* GenerateSignedURL that signs with whatever secret key is configured
GenerateSignedURL_NoSecretCheck(cfg, path, operation, expiresIn, t) ==
    LET signedConfig == GetSignedURLConfig(cfg) IN
    IF ~signedConfig.enabled
        THEN TokRet("SIGNED_URL_FAILED", "signed URLs are not enabled", Garbage)
    ELSE TokRet("OK", "",
                Token("HS256", signedConfig.secretKey, path, operation, t + expiresIn, t))

\* GenerateSignedURL(path, operation, expiresIn) at time t
GenerateSignedURL(cfg, path, operation, expiresIn, t) ==
    LET signedConfig == GetSignedURLConfig(cfg) IN
    IF ~signedConfig.enabled
        THEN TokRet("SIGNED_URL_FAILED", "signed URLs are not enabled", Garbage)
    ELSE IF signedConfig.secretKey = ""
        THEN TokRet("SIGNED_URL_FAILED", "secret key is required for signed URLs", Garbage)
    ELSE TokRet("OK", "",
                Token("HS256", signedConfig.secretKey, path, operation, t + expiresIn, t))

\* jwt.Parse(tokenString, keyFunc) at time t, with the provider's keyFunc:
\* the token must be well formed, its method an HMAC, its signature made with
\* the key, and t must lie before its exp claim.
JwtParse(tok, key, t) ==
    IF tok.shape # "jwt" THEN "token is malformed"
    ELSE IF tok.alg # "HS256" THEN "unexpected signing method"
    ELSE IF tok.key # key THEN "signature is invalid"
    ELSE IF ~(t < tok.exp) THEN "token is expired"
    ELSE "OK"

\* ValidateSignedToken without the comparison of the token's path
ValidateSignedToken_NoPathCheck(cfg, tok, path, operation, tParse, tCheck) ==
    LET signedConfig == GetSignedURLConfig(cfg) IN
    IF ~signedConfig.enabled
        THEN TokRet("SIGNED_URL_FAILED", "signed URLs are not enabled", tok)
    ELSE IF signedConfig.secretKey = ""
        THEN TokRet("SIGNED_URL_FAILED", "secret key is required for signed URLs", tok)
    ELSE IF JwtParse(tok, signedConfig.secretKey, tParse) # "OK"
        THEN TokRet("INVALID_TOKEN", "invalid token", tok)
    ELSE IF tok.op # operation
        THEN TokRet("INVALID_TOKEN", "token operation does not match requested operation", tok)
    ELSE IF tCheck > tok.exp THEN TokRet("TOKEN_EXPIRED", "token has expired", tok)
    ELSE TokRet("OK", "", tok)

\* ValidateSignedToken(tokenString, path, operation): jwt.Parse reads the
\* clock at tParse, the expiry check after it at tCheck.
ValidateSignedToken(cfg, tok, path, operation, tParse, tCheck) ==
    LET signedConfig == GetSignedURLConfig(cfg) IN
    IF ~signedConfig.enabled
        THEN TokRet("SIGNED_URL_FAILED", "signed URLs are not enabled", tok)
    ELSE IF signedConfig.secretKey = ""
        THEN TokRet("SIGNED_URL_FAILED", "secret key is required for signed URLs", tok)
    ELSE IF JwtParse(tok, signedConfig.secretKey, tParse) # "OK"
        THEN TokRet("INVALID_TOKEN", "invalid token", tok)
    ELSE IF tok.path # path
        THEN TokRet("INVALID_TOKEN", "token path does not match requested path", tok)
    ELSE IF tok.op # operation
        THEN TokRet("INVALID_TOKEN", "token operation does not match requested operation", tok)
    ELSE IF tCheck > tok.exp THEN TokRet("TOKEN_EXPIRED", "token has expired", tok)
    ELSE TokRet("OK", "", tok)

----------------------------------------------------------------------------
(* The download handler *)

\* An HTTP response: its status, whether the download's headers were set,
\* the bytes streamed, and the token of a redirect.
Response(status, headers, body, location) ==
    [status |-> status, headers |-> headers, body |-> body, location |-> location]

\* handleDirectDownload(c, path); copyFails: the response writer refuses the
\* first write.
handleDirectDownload(fsys, path, copyFails) ==
    LET ex == Exists(fsys, path)
        dl == Download(fsys, path)
    IN  IF ex.err # "OK" THEN Response(500, FALSE, <<>>, Garbage)
        ELSE IF ~ex.exists THEN Response(404, FALSE, <<>>, Garbage)
        ELSE IF dl.err # "OK" THEN Response(500, FALSE, <<>>, Garbage)
        ELSE IF copyFails THEN Response(500, TRUE, <<>>, Garbage)
        ELSE Response(200, TRUE, dl.data, Garbage)

\* handleTokenDownload that serves whatever the validation said
handleTokenDownload_IgnoresValidation(cfg, fsys, path, tok, tParse, tCheck, copyFails) ==
    handleDirectDownload(fsys, path, copyFails)

\* handleTokenDownload(c, path, token), the provider being the filesystem one
handleTokenDownload(cfg, fsys, path, tok, tParse, tCheck, copyFails) ==
    IF ValidateSignedToken(cfg, tok, path, "GET", tParse, tCheck).err # "OK"
        THEN Response(401, FALSE, <<>>, Garbage)
    ELSE handleDirectDownload(fsys, path, copyFails)

\* The expires_in query parameter: absent, a number of seconds, no number
ExpiresInParams == {"", "1", "x"}

\* strconv.Atoi on the parameter
Atoi(str) == IF str = "1" THEN [ok |-> TRUE, n |-> 1] ELSE [ok |-> FALSE, n |-> 0]

\* handleSignedURLRequest(c, path) at time t
handleSignedURLRequest(cfg, path, expiresInStr, t) ==
    LET conv == Atoi(expiresInStr)
        expiresIn == IF expiresInStr # "" /\ conv.ok THEN conv.n
                     ELSE GetSignedURLConfig(cfg).expiresIn
        gen == GenerateSignedURL(cfg, path, "GET", expiresIn, t)
    IN  IF gen.err # "OK" THEN Response(500, FALSE, <<>>, Garbage)
        ELSE Response(301, FALSE, <<>>, gen.token)

\* StreamFile that looks at signed_url before it looks at the token
StreamFile_SignedUrlFirst(cfg, fsys, path, hasToken, tok, signedUrl, expiresInStr, tParse, tCheck, copyFails) ==
    IF signedUrl THEN handleSignedURLRequest(cfg, path, expiresInStr, tParse)
    ELSE IF hasToken THEN handleTokenDownload(cfg, fsys, path, tok, tParse, tCheck, copyFails)
    ELSE handleDirectDownload(fsys, path, copyFails)

\* StreamFile(c, path): token is the token query parameter (Garbage with
\* hasToken false when the request has none), signedUrl tells signed_url=true.
StreamFile(cfg, fsys, path, hasToken, tok, signedUrl, expiresInStr, tParse, tCheck, copyFails) ==
    IF hasToken THEN handleTokenDownload(cfg, fsys, path, tok, tParse, tCheck, copyFails)
    ELSE IF signedUrl THEN handleSignedURLRequest(cfg, path, expiresInStr, tParse)
    ELSE handleDirectDownload(fsys, path, copyFails)

----------------------------------------------------------------------------
(* Signed URLs and downloads, as the clock advances *)

\* The last second of the clock the model follows
MaxTime == 3

\* The longest the expiry check of a validation lags behind jwt.Parse
MaxPause == 2

\* The number of tokens minted that the model follows
MaxIssued == 1

\* The expiresIn arguments of direct GenerateSignedURL calls, in seconds
ExpiresIns == {1, 2}

\* The tokens somebody without the secret key can make up
Forged ==
    { Garbage,
      Token("none", "", <<"a">>, "GET", MaxTime + 1, 0),
      Token("HS256", "guess", <<"a">>, "GET", MaxTime + 1, 0) }

\* The filesystems the downloads are served from: the base directory empty,
\* and with the file a in it
WithFileA == InitFs @@ (Append(BaseDir, <<"a">>) :> FileNode(<<1, 2>>))

TokenCall(op, path, operation, expiresIn, r, tParse, tCheck) ==
    [NoCall EXCEPT !.op = op, !.path = path, !.operation = operation,
                   !.expiresIn = expiresIn, !.err = r.err, !.msg = r.msg,
                   !.token = r.token, !.tParse = tParse, !.tCheck = tCheck]

\* The tokens held once tok was minted
Mint(tok) == issued \cup {tok}

DoGenerateSignedURL ==
    /\ Idle
    /\ \E p \in RequestPaths, o \in SignedURLOperations, e \in ExpiresIns :
        LET r == GenerateSignedURL(config, p, o, e, now) IN
        /\ r.err = "OK" => Cardinality(Mint(r.token)) <= MaxIssued
        /\ issued' = IF r.err = "OK" THEN Mint(r.token) ELSE issued
        /\ last' = TokenCall("GenerateSignedURL", p, o, e, r, now, now)
    /\ UNCHANGED <<config, fs, now, resp, procs, batch, facades>>

DoValidateSignedToken ==
    /\ Idle
    /\ \E tok \in issued \cup Forged, p \in RequestPaths, o \in SignedURLOperations,
          d \in 0..MaxPause :
        /\ now + d <= MaxTime
        /\ now' = now + d
        /\ last' = TokenCall("ValidateSignedToken", p, o, 0,
                             ValidateSignedToken(config, tok, p, o, now, now + d),
                             now, now + d)
    /\ UNCHANGED <<config, fs, issued, resp, procs, batch, facades>>

\* The answer to a request, with the request
Answer(path, hasToken, tok, signedUrl, tParse, tCheck, r) ==
    [status |-> r.status, headers |-> r.headers, body |-> r.body,
     location |-> r.location, path |-> path, hasToken |-> hasToken,
     token |-> tok, signedUrl |-> signedUrl, tParse |-> tParse, tCheck |-> tCheck]

\* A download request with a token parameter
DoTokenDownload ==
    /\ Idle
    /\ \E p \in RequestPaths, tok \in issued \cup Forged, d \in 0..MaxPause,
          w \in BOOLEAN, s \in BOOLEAN :
        /\ now + d <= MaxTime
        /\ now' = now + d
        /\ resp' = Answer(p, TRUE, tok, s, now, now + d,
                          StreamFile(config, fs, p, TRUE, tok, s, "", now, now + d, w))
    /\ UNCHANGED <<config, fs, last, issued, procs, batch, facades>>

\* A request with signed_url=true and no token
DoSignedURLRequest ==
    /\ Idle
    /\ \E p \in RequestPaths, e \in ExpiresInParams :
        LET r == StreamFile(config, fs, p, FALSE, Garbage, TRUE, e, now, now, FALSE) IN
        /\ r.status = 301 => Cardinality(Mint(r.location)) <= MaxIssued
        /\ issued' = IF r.status = 301 THEN Mint(r.location) ELSE issued
        /\ resp' = Answer(p, FALSE, Garbage, TRUE, now, now, r)
    /\ UNCHANGED <<config, fs, last, now, procs, batch, facades>>

\* A plain download request
DoDirectDownload ==
    /\ Idle
    /\ \E p \in RequestPaths, w \in BOOLEAN :
        resp' = Answer(p, FALSE, Garbage, FALSE, now, now,
                       StreamFile(config, fs, p, FALSE, Garbage, FALSE, "", now, now, w))
    /\ UNCHANGED <<config, fs, last, now, issued, procs, batch, facades>>

\* A second passes.
Tick ==
    /\ Idle
    /\ now < MaxTime
    /\ now' = now + 1
    /\ UNCHANGED <<config, fs, last, issued, resp, procs, batch, facades>>

\* The holder of the tokens throws them away.
DropTokens ==
    /\ Idle
    /\ issued # {}
    /\ issued' = {}
    /\ UNCHANGED <<config, fs, last, now, resp, procs, batch, facades>>

InitToken ==
    /\ config \in Configs
    /\ fs \in {InitFs, WithFileA}
    /\ last = NoCall
    /\ now = 0
    /\ issued = {}
    /\ resp = NoResponse
    /\ procs = <<>>
    /\ batch = NoBatch
    /\ facades = <<TheStorage>>

NextToken ==
    \/ DoGenerateSignedURL
    \/ DoValidateSignedToken
    \/ DoTokenDownload
    \/ DoSignedURLRequest
    \/ DoDirectDownload
    \/ Tick
    \/ DropTokens
    \/ Forget

SpecToken == InitToken /\ [][NextToken]_vars

----------------------------------------------------------------------------
(* Properties of signed URLs and downloads (specification SpecToken) *)

\* The logical paths whose cleaned form has a ".." in it
ClimbingPaths == { p \in Paths \cup RequestPaths : Contains(Clean(p), DotDot) }

\* The operations of the StorageProvider interface
BackendOperations ==
    { "Upload", "Download", "Delete", "Exists", "GetInfo", "List", "DeleteDirectory",
      "Copy", "Move", "GenerateSignedURL" }

\* C1 (as claimed): every backend operation called with a path whose cleaned
\* form contains ".." (as its path, or as the source or destination of a Copy
\* or Move), GenerateSignedURL included, fails with InvalidPath, does not reach
\* the filesystem and leaves the stored state unchanged.
C1_TraversalRejected ==
    [][(Idle /\ last'.op \in BackendOperations
            /\ (last'.path \in ClimbingPaths \/ last'.path2 \in ClimbingPaths))
        => (last'.err = "INVALID_PATH" /\ ~last'.acc /\ fs' = fs)]_vars

\* C4: a token minted by GenerateSignedURL for (p, op) and validated before its
\* expiry is accepted exactly when it is checked against the same path string
\* and the same operation; against another path or another operation it is
\* rejected with InvalidToken.
C4_ScopedToken ==
    (last.op = "ValidateSignedToken" /\ last.token \in issued
            /\ last.tCheck < last.token.exp)
        => LET same == last.path = last.token.path /\ last.operation = last.token.op
           IN  /\ (last.err = "OK") <=> same
               /\ ~same => last.err = "INVALID_TOKEN"

\* A token minted for the path a was checked, before its expiry, against
\* another spelling of the same file, and rejected.
C4_Witness ==
    /\ last.op = "ValidateSignedToken"
    /\ last.token \in issued
    /\ last.tCheck < last.token.exp
    /\ last.token.path = <<"a">>
    /\ last.path = <<"/", "a">>
    /\ last.operation = last.token.op
    /\ last.err = "INVALID_TOKEN"

\* C5 (as claimed): a minted token checked against its own path and operation
\* fails with TokenExpired whenever the validation runs after expiresAt, and
\* does not fail when it runs at or before expiresAt.
C5_ExpiredAsClaimed ==
    (last.op = "ValidateSignedToken" /\ last.token \in issued
            /\ last.path = last.token.path /\ last.operation = last.token.op)
        => /\ last.tParse > last.token.exp => last.err = "TOKEN_EXPIRED"
           /\ last.tCheck <= last.token.exp => last.err = "OK"

\* C6: a request with a token gets headers or bytes of the file only if
\* ValidateSignedToken(token, path, GET) succeeded; when the token is not a
\* minted one, is minted for another path or operation, or has expired, the
\* request is rejected with nothing set and nothing streamed.
C6_ValidatedBeforeServed ==
    resp.hasToken
        => LET valid == ValidateSignedToken(config, resp.token, resp.path, "GET",
                                            resp.tParse, resp.tCheck).err = "OK"
               bad == \/ resp.token \notin issued
                      \/ resp.token.path # resp.path
                      \/ resp.token.op # "GET"
                      \/ resp.tParse > resp.token.exp
           IN  /\ (resp.headers \/ resp.body # <<>>) => valid
               /\ (bad \/ ~valid)
                    => (resp.status = 401 /\ ~resp.headers /\ resp.body = <<>>)

\* A request for a stored file with a token minted for another spelling of its
\* path was rejected.
C6_Witness ==
    /\ resp.hasToken
    /\ resp.token \in issued
    /\ resp.token.op = "GET"
    /\ resp.token.path = <<"a">>
    /\ resp.path = <<"/", "a">>
    /\ resp.tCheck < resp.token.exp
    /\ IsFile(fs, FullPath[resp.path].full)
    /\ resp.status = 401

----------------------------------------------------------------------------
(* The upload pipeline, two uploads at a time *)

\* The concurrent calls of UploadFromUploadedFile
Uploads == {1, 2}

\* The bytes of the staged file of each call
Staged == <<(<<1, 2>>), (<<3>>)>>

\* A call of UploadFromUploadedFile that has not started: its uploadedFile's
\* Filename and its arguments
Pending(filename, destinationDir, destinationFileName) ==
    [pc |-> "start", filename |-> filename, destinationDir |-> destinationDir,
     destinationFileName |-> destinationFileName, uniqueID |-> <<>>,
     fileName |-> <<>>, filePath |-> <<>>, off |-> 0, unlinked |-> FALSE,
     ctxDone |-> FALSE, err |-> "", result |-> [Filename |-> <<>>, Path |-> <<>>, Size |-> 0]]

\* The full path call i writes to
FullPathOf(i) == FullPath[procs[i].filePath].full

\* The call returns an error.
Fails(i, code) == procs' = [procs EXCEPT ![i].pc = "failed", ![i].err = code]

\* fileName and filePath are computed, the name with fresh random bytes.
ChooseName(i) ==
    /\ procs[i].pc = "start"
    /\ \E u \in UniqueIDs :
        LET fileName == StoredName(procs[i].filename, procs[i].destinationFileName, u) IN
        procs' = [procs EXCEPT ![i].pc = "upload", ![i].uniqueID = u,
                               ![i].fileName = fileName,
                               ![i].filePath = FilePath(procs[i].destinationDir, fileName)]
    /\ UNCHANGED <<config, fs, last, now, issued, resp, batch, facades>>

\* Upload: getFullPath and os.MkdirAll
MakeDirectory(i) ==
    /\ procs[i].pc = "upload"
    /\ LET gp == FullPath[procs[i].filePath]
           mk == MkdirAll(fs, Dir(gp.full))
       IN  IF gp.err # "OK" THEN Fails(i, gp.err) /\ fs' = fs
           ELSE IF mk.err # "OK" THEN Fails(i, "UPLOAD_FAILED") /\ fs' = fs
           ELSE procs' = [procs EXCEPT ![i].pc = "create"] /\ fs' = mk.fs
    /\ UNCHANGED <<config, last, now, issued, resp, batch, facades>>

\* Upload: os.Create
CreateFile(i) ==
    /\ procs[i].pc = "create"
    /\ LET cr == Create(fs, FullPathOf(i)) IN
        IF cr.err # "OK" THEN Fails(i, "UPLOAD_FAILED") /\ fs' = fs
        ELSE procs' = [procs EXCEPT ![i].pc = "copy", ![i].off = 0, ![i].unlinked = FALSE]
             /\ fs' = cr.fs
    /\ UNCHANGED <<config, last, now, issued, resp, batch, facades>>

\* Upload: io.Copy writes the next byte at the offset of the call's own file
\* descriptor; the bytes of an unlinked file are not seen under its path.
WriteByte(i) ==
    /\ procs[i].pc = "copy"
    /\ procs[i].off < Len(Staged[i])
    /\ procs' = [procs EXCEPT ![i].off = @ + 1]
    /\ fs' = IF procs[i].unlinked THEN fs
             ELSE [fs EXCEPT ![FullPathOf(i)] =
                      FileNode(WriteAt(@.data, procs[i].off, <<Staged[i][procs[i].off + 1]>>))]
    /\ UNCHANGED <<config, last, now, issued, resp, batch, facades>>

\* Upload: a write fails, and the path is removed; a file another call has
\* open under the path is unlinked by it.
WriteFails(i) ==
    /\ procs[i].pc = "copy"
    /\ procs[i].off < Len(Staged[i])
    /\ LET gone == FullPathOf(i) \in DOMAIN fs IN
        /\ fs' = Remove(fs, FullPathOf(i)).fs
        /\ procs' = [j \in Uploads |->
                        IF j = i THEN [procs[j] EXCEPT !.pc = "failed", !.err = "UPLOAD_FAILED"]
                        ELSE IF gone /\ procs[j].pc = "copy" /\ FullPathOf(j) = FullPathOf(i)
                            THEN [procs[j] EXCEPT !.unlinked = TRUE]
                        ELSE procs[j]]
    /\ UNCHANGED <<config, last, now, issued, resp, batch, facades>>

\* Upload returns the FileInfo, UploadFromUploadedFile the result.
Finish(i) ==
    /\ procs[i].pc = "copy"
    /\ procs[i].off = Len(Staged[i])
    /\ procs' = [procs EXCEPT ![i].pc = "done",
                    ![i].result = [Filename |-> procs[i].fileName,
                                   Path |-> procs[i].filePath,
                                   Size |-> procs[i].off]]
    /\ UNCHANGED <<config, fs, last, now, issued, resp, batch, facades>>

\* The caller cancels the ctx of call i while its Upload runs; nothing in
\* Upload reads ctx.
CancelContext(i) ==
    /\ procs[i].pc \in {"upload", "create", "copy"}
    /\ ~procs[i].ctxDone
    /\ procs' = [procs EXCEPT ![i].ctxDone = TRUE]
    /\ UNCHANGED <<config, fs, last, now, issued, resp, batch, facades>>

\* The two staged files have the same Filename and go to the same directory.
InitPipeline ==
    /\ config = SignedConfig
    /\ fs = InitFs
    /\ last = NoCall
    /\ now = 0
    /\ issued = {}
    /\ resp = NoResponse
    /\ batch = NoBatch
    /\ facades = <<TheStorage>>
    /\ \E f \in Filenames, d \in DestinationDirs, n \in DestinationFileNames :
        procs = [i \in Uploads |-> Pending(f, d, n)]

NextPipeline ==
    \E i \in Uploads :
        \/ ChooseName(i)
        \/ MakeDirectory(i)
        \/ CreateFile(i)
        \/ WriteByte(i)
        \/ WriteFails(i)
        \/ Finish(i)
        \/ CancelContext(i)

SpecPipeline == InitPipeline /\ [][NextPipeline]_vars

----------------------------------------------------------------------------
(* Properties of the upload pipeline (specification SpecPipeline) *)

\* Both calls returned a result, and no destination file name was given.
BothStored ==
    /\ \A i \in Uploads : procs[i].pc = "done"
    /\ \A i \in Uploads : procs[i].destinationFileName = <<>>

\* The two results name different files, and each downloads to the bytes of
\* its own staged file.
EachItsOwn ==
    /\ procs[1].result.Filename # procs[2].result.Filename
    /\ procs[1].result.Path # procs[2].result.Path
    /\ \A i \in Uploads :
        LET dl == Download(fs, procs[i].result.Path) IN
        dl.err = "OK" /\ dl.data = Staged[i]

\* C10 (as claimed): two pipeline uploads of staged files with the same
\* filename into the same directory, concurrent or one after the other, yield
\* two results with distinct Filename and distinct Path, each downloading to
\* its own content.
C10_AlwaysDistinct == BothStored => EachItsOwn

\* C10 (amended): whenever the random bytes drawn for the two names differ,
\* the two results have distinct Filename and distinct Path, and each Path
\* downloads to its own upload's content, however the two uploads interleave.
C10_DistinctWhenIdsDiffer ==
    (BothStored /\ procs[1].uniqueID # procs[2].uniqueID) => EachItsOwn

\* Two uploads that drew different random bytes have both returned.
C10_Witness ==
    /\ BothStored
    /\ procs[1].uniqueID # procs[2].uniqueID
    /\ procs[1].filename = <<"d", ".", "t">>
    /\ Download(fs, procs[2].result.Path).data = <<3>>

\* C11 (as claimed): once two concurrent uploads to the same path have both
\* returned successfully, the path holds exactly the content of one of them.
C11_LastWriterWins ==
    (/\ \A i \in Uploads : procs[i].pc = "done"
     /\ procs[1].filePath = procs[2].filePath)
        => /\ IsFile(fs, FullPathOf(1))
           /\ fs[FullPathOf(1)].data \in { Staged[i] : i \in Uploads }

\* C12 (as claimed): once its ctx is cancelled, a streaming upload reads no
\* further byte of its input and does not return successfully, and no file
\* it wrote is left at its path.
C12_CancelStopsUpload ==
    [][\A i \in Uploads :
        (procs[i].ctxDone /\ procs[i].pc = "copy")
            => /\ procs'[i].off = procs[i].off
               /\ procs'[i].pc # "done"
               /\ (procs'[i].pc = "failed" => FullPathOf(i) \notin DOMAIN fs')]_vars

----------------------------------------------------------------------------
(* UploadFromCtx: the staged files of a request, one after the other *)

\* A staged file: the form field it came in, the uploadedFile's Filename and
\* OriginalName, whether the file at its Path can be opened, and its bytes
StagedFile(field, filename, originalName, present, content) ==
    [field |-> field, Filename |-> filename, OriginalName |-> originalName,
     present |-> present, content |-> content]

FileA == StagedFile("f1", <<"d", ".", "t">>, <<"x", ".", "t">>, TRUE, <<1, 2>>)
FileB == StagedFile("f2", <<"d">>, <<"d">>, TRUE, <<3>>)
FileC == StagedFile("f1", <<"d", ".", "t", ".", "g">>, <<"D">>, TRUE, <<3>>)
FileGone == StagedFile("f2", <<"d", ".", "t">>, <<"y">>, FALSE, <<>>)
FileD == StagedFile("f2", <<"e", ".", "t">>, <<"z">>, TRUE, <<3>>)

\* The staged files of a request, in the order they were staged
StagedSets ==
    { <<>>, <<FileA>>, <<FileA, FileB>>, <<FileA, FileC>>, <<FileA, FileB, FileC>>,
      <<FileA, FileGone, FileC>>, <<FileGone>>, <<FileA, FileD>> }

\* No result (nil)
NoResult ==
    [FieldName |-> "", OriginalName |-> <<>>, Filename |-> <<>>, Path |-> <<>>, Size |-> 0]

\* UploadFromUploadedFile(ctx, uploadedFile, fieldName, destinationDir,
\* destinationFileName...), run without interruption: uniqueID are the random
\* bytes, failAt the byte at which the write fails (-1: it does not).
UploadFromUploadedFile(fsys, uploadedFile, fieldName, destinationDir, destinationFileName, uniqueID, failAt) ==
    LET fileName == StoredName(uploadedFile.Filename, destinationFileName, uniqueID)
        filePath == FilePath(destinationDir, fileName)
        up == Upload(fsys, filePath, uploadedFile.content, failAt)
    IN  IF ~uploadedFile.present
            THEN [fs |-> fsys, err |-> "UPLOAD_FAILED",
                  msg |-> "Failed to open uploaded file", result |-> NoResult]
        ELSE IF up.err # "OK"
            THEN [fs |-> up.fs, err |-> up.err, msg |-> up.msg, result |-> NoResult]
        ELSE [fs |-> up.fs, err |-> "OK", msg |-> "",
              result |-> [FieldName |-> fieldName,
                          OriginalName |-> uploadedFile.OriginalName,
                          Filename |-> fileName, Path |-> filePath, Size |-> up.size]]

\* allFiles[field]: the staged files of a form field, by their positions
FilesOf(staged, field) ==
    SelectSeq([i \in 1..Len(staged) |-> i], LAMBDA i : staged[i].field = field)

\* The orders in which ranging over the map allFiles can visit the staged
\* files: the fields in any order, the files of a field in the order staged
RECURSIVE MapOrders(_, _)
MapOrders(staged, fields) ==
    IF fields = {} THEN { <<>> }
    ELSE UNION { { FilesOf(staged, f) \o rest : rest \in MapOrders(staged, fields \ {f}) } :
                 f \in fields }

\* UploadFromCtx's loop body that goes on to the next file after an error
AfterUpload_SkipsFailure(b, i, r) ==
    LET tried == Append(b.attempts, [file |-> i, err |-> r.err]) IN
    IF r.err # "OK" THEN [b EXCEPT !.next = @ + 1, !.attempts = tried]
    ELSE [b EXCEPT !.next = @ + 1, !.attempts = tried, !.results = Append(@, r.result)]

\* UploadFromCtx's loop body after UploadFromUploadedFile returned r for the
\* staged file i
AfterUpload(b, i, r) ==
    LET tried == Append(b.attempts, [file |-> i, err |-> r.err]) IN
    IF r.err # "OK"
        THEN [b EXCEPT !.status = "returned", !.attempts = tried, !.results = <<>>,
                       !.err = r.err]
    ELSE [b EXCEPT !.next = @ + 1, !.attempts = tried, !.results = Append(@, r.result)]

\* UploadFromCtx is called; with no staged file it returns at once.
CallUploadFromCtx ==
    /\ batch.status = "idle"
    /\ \E staged \in StagedSets, d \in BatchDirs, n \in DestinationFileNames :
        LET b == [NoBatch EXCEPT !.staged = staged, !.destinationDir = d,
                                 !.destinationFileName = n]
        IN  IF staged = <<>>
                THEN batch' = [b EXCEPT !.status = "returned", !.err = "UPLOAD_FAILED"]
            ELSE \E order \in MapOrders(staged, {staged[i].field : i \in DOMAIN staged}) :
                    batch' = [b EXCEPT !.status = "running", !.order = order]
    /\ UNCHANGED <<config, fs, last, now, issued, resp, procs, facades>>

\* The loop uploads the next staged file.
UploadNext ==
    /\ batch.status = "running"
    /\ batch.next <= Len(batch.order)
    /\ LET i == batch.order[batch.next]
           file == batch.staged[i]
       IN  \E u \in UniqueIDs, k \in -1..Len(file.content) :
              LET r == UploadFromUploadedFile(fs, file, file.field, batch.destinationDir,
                                              batch.destinationFileName, u, k)
              IN  /\ fs' = r.fs
                  /\ batch' = AfterUpload(batch, i, r)
    /\ UNCHANGED <<config, last, now, issued, resp, procs, facades>>

\* The loop is over: UploadFromCtx returns the results.
ReturnResults ==
    /\ batch.status = "running"
    /\ batch.next > Len(batch.order)
    /\ batch' = [batch EXCEPT !.status = "returned", !.err = "OK"]
    /\ UNCHANGED <<config, fs, last, now, issued, resp, procs, facades>>

InitBatch ==
    /\ config = SignedConfig
    /\ fs = InitFs
    /\ last = NoCall
    /\ now = 0
    /\ issued = {}
    /\ resp = NoResponse
    /\ procs = <<>>
    /\ batch = NoBatch
    /\ facades = <<TheStorage>>

NextBatch ==
    \/ CallUploadFromCtx
    \/ UploadNext
    \/ ReturnResults

SpecBatch == InitBatch /\ [][NextBatch]_vars

----------------------------------------------------------------------------
(* Properties of UploadFromCtx (specification SpecBatch) *)

\* C13: UploadFromCtx returns the error of the first staged upload that fails,
\* with no result at all and without trying a further staged file; when no
\* upload fails it returns one result for each staged file.
C13_FailFast ==
    (batch.status = "returned" /\ batch.staged # <<>>)
        => LET n == Len(batch.attempts) IN
           /\ n >= 1
           /\ \A k \in 1..(n - 1) : batch.attempts[k].err = "OK"
           /\ IF batch.attempts[n].err # "OK"
                  THEN batch.err = batch.attempts[n].err /\ batch.results = <<>>
              ELSE /\ batch.err = "OK"
                   /\ Len(batch.results) = Len(batch.staged)
                   /\ { batch.attempts[k].file : k \in 1..n } = DOMAIN batch.staged
                   /\ \A k \in 1..n :
                        LET file == batch.staged[batch.attempts[k].file] IN
                        /\ batch.results[k].OriginalName = file.OriginalName
                        /\ batch.results[k].FieldName = file.field
                        /\ batch.results[k].Size = Len(file.content)

\* The second of three staged uploads failed: the call returned its error and
\* no result, the third file untried.
C13_Witness ==
    /\ batch.status = "returned"
    /\ Len(batch.staged) = 3
    /\ Len(batch.attempts) = 2
    /\ batch.err = "UPLOAD_FAILED"
    /\ batch.results = <<>>

\* C14 (as claimed): the staged files are uploaded, and their results
\* returned, in the order they were staged, across form fields too.
C14_InsertionOrder ==
    \A k \in 1..Len(batch.attempts) : batch.attempts[k].file = k

\* The positions of the dots of a name
Dots(name) == { i \in 1..Len(name) : name[i] = "." }

\* The extension of a name without separators: from its last dot on
ExtensionOf(name) ==
    IF Dots(name) = {} THEN <<>>
    ELSE SubSeq(name, CHOOSE i \in Dots(name) : \A j \in Dots(name) : j <= i, Len(name))

LowerHex == {"0", "1", "2", "3", "4", "5", "6", "7", "8", "9", "a", "b", "c", "d", "e", "f"}

\* The staged file the k-th result is of
FileOfResult(k) ==
    batch.staged[SelectSeq(batch.attempts, LAMBDA t : t.err = "OK")[k].file]

\* C15: with an explicit base name the stored name is the base followed by
\* the extension of the staged filename; without one it is the staged filename
\* without its extension, "_", 8 lower-case hex characters, and the extension
\* (nothing, not even a dot, when the staged filename has none); OriginalName
\* is returned as supplied.
C15_StoredNamePolicy ==
    \A k \in 1..Len(batch.results) :
        LET name == FileOfResult(k).Filename
            ext == ExtensionOf(name)
            stem == SubSeq(name, 1, Len(name) - Len(ext))
            stored == batch.results[k].Filename
        IN  /\ batch.results[k].OriginalName = FileOfResult(k).OriginalName
            /\ IF batch.destinationFileName # <<>>
                   THEN stored = batch.destinationFileName \o ext
               ELSE /\ Len(stored) = Len(name) + 9
                    /\ SubSeq(stored, 1, Len(stem) + 1) = stem \o <<"_">>
                    /\ \A j \in (Len(stem) + 2)..(Len(stem) + 9) : stored[j] \in LowerHex
                    /\ SubSeq(stored, Len(stem) + 10, Len(stored)) = ext
                    /\ (Dots(name) = {} => Dots(stored) = {})

\* A file staged as "d", without extension, was stored under /u with a
\* generated name: d_ and 8 hex characters, no extension.
C15_Witness ==
    /\ batch.results # <<>>
    /\ batch.destinationDir = <<"/", "u">>
    /\ batch.results[1].Filename = <<"d", "_", "a", "b", "c", "d", "e", "f", "1", "0">>
    /\ batch.results[1].Path = <<"/", "u", "/">> \o batch.results[1].Filename
    /\ batch.results[1].OriginalName = <<"d">>

\* d without its trailing separators
RECURSIVE Bare(_)
Bare(d) == IF d # <<>> /\ d[Len(d)] = "/" THEN Bare(SubSeq(d, 1, Len(d) - 1)) ELSE d

\* C16 (as claimed): for every destination directory, with or without a
\* trailing slash, the stored path is the directory, one separator and the
\* stored name; the root gives /<stored name>.
C16_TrailingSlashStripped ==
    \A k \in 1..Len(batch.results) :
        batch.results[k].Path
            = Bare(batch.destinationDir) \o <<"/">> \o batch.results[k].Filename

\* C16 (amended): for every destination directory d that does not end in a
\* slash, the destinations d and d/ both give the stored path d/<stored name>,
\* without a doubled separator, and the root / gives /<stored name>.
C16_OneTrailingSlashStripped ==
    \A k \in 1..Len(batch.results) :
        LET d == batch.destinationDir
            bare == Bare(d)
        IN  (d = bare \/ d = bare \o <<"/">>)
                => /\ batch.results[k].Path = bare \o <<"/">> \o batch.results[k].Filename
                   /\ ~Contains(batch.results[k].Path, <<"/", "/">>)

\* An upload with the destination u/ was stored at u/<stored name>.
C16_Witness ==
    /\ batch.results # <<>>
    /\ batch.destinationDir = <<"u", "/">>
    /\ batch.results[1].Path = <<"u", "/">> \o batch.results[1].Filename

----------------------------------------------------------------------------
(* Properties of the provider's error kinds (specification Spec) *)

\* The call that just returned was given a valid path as its (first) path.
ValidCall(op) == last'.op = op /\ last' # last /\ FullPath[last'.path].err = "OK"

\* C17 (as claimed): GetInfo and Download of a valid path at which nothing
\* exists, a path below a stored regular file included, fail with FileNotFound.
C17_MissingIsNotFound ==
    (/\ last.op \in {"GetInfo", "Download"}
     /\ FullPath[last.path].err = "OK"
     /\ FullPath[last.path].full \notin DOMAIN fs)
        => last.err = "FILE_NOT_FOUND"

\* C18 (as claimed): List of a stored regular file fails with InvalidPath, of
\* a path at which nothing exists with DirectoryNotFound; of a directory it
\* returns exactly the immediate children; it changes nothing.
C18_ListKinds ==
    [][ValidCall("List")
        => LET full == FullPath[last'.path].full IN
           /\ fs' = fs
           /\ IF full \notin DOMAIN fs THEN last'.err = "DIRECTORY_NOT_FOUND"
              ELSE IF ~fs[full].dir THEN last'.err = "INVALID_PATH"
              ELSE /\ last'.err = "OK"
                   /\ { e.name : e \in last'.entries }
                        = { g[Len(g)] : g \in { h \in DOMAIN fs :
                                                 Len(h) = Len(full) + 1 /\ IsPrefixOf(full, h) } }
                   /\ Cardinality(last'.entries) = Cardinality(Children(fs, full))]_vars

\* C19 (as claimed): with a directory as their target, Download fails with
\* InvalidPath, and Delete, Copy and Move (the directory as source) return an
\* error and leave the directory and what it holds unchanged.
C19_DirectoryTargetsFail ==
    [][\A op \in {"Download", "Delete", "Copy", "Move"} :
        (ValidCall(op) /\ FullPath[last'.path].full \in DOMAIN fs
                /\ fs[FullPath[last'.path].full].dir)
            => /\ last'.err # "OK"
               /\ op = "Download" => last'.err = "INVALID_PATH"
               /\ \A g \in Below(fs, FullPath[last'.path].full) :
                    g \in DOMAIN fs' /\ fs'[g] = fs[g]]_vars

\* C20 (as claimed): DeleteDirectory fails with DirectoryNotFound when nothing
\* exists at the path and with InvalidPath when a regular file does, changing
\* nothing; on success the whole subtree is gone, a following List fails, and
\* what is stored outside the subtree is unchanged.
C20_DeleteDirectoryKinds ==
    [][ValidCall("DeleteDirectory")
        => LET full == FullPath[last'.path].full IN
           IF full \notin DOMAIN fs THEN last'.err = "DIRECTORY_NOT_FOUND" /\ fs' = fs
           ELSE IF ~fs[full].dir THEN last'.err = "INVALID_PATH" /\ fs' = fs
           ELSE last'.err = "OK"
                => /\ \A g \in DOMAIN fs' : ~IsPrefixOf(full, g)
                   /\ List(fs', last'.path).err # "OK"
                   /\ \A g \in DOMAIN fs : ~IsPrefixOf(full, g)
                        => g \in DOMAIN fs' /\ fs'[g] = fs[g]]_vars

----------------------------------------------------------------------------
(* Further properties of signed URLs and downloads (specification SpecToken) *)

\* C21: GenerateSignedURL returns a token exactly when the configuration has
\* signed URLs present, enabled and a non-empty secret key; otherwise it fails
\* with SignedURLFailed and returns no token, whatever the path, the operation
\* and the expiry.
C21_IssuanceNeedsSecret ==
    last.op = "GenerateSignedURL"
        => IF config.present /\ config.enabled /\ config.secretKey # ""
               THEN /\ last.err = "OK"
                    /\ last.token.shape = "jwt"
                    /\ last.token.key = config.secretKey
           ELSE last.err = "SIGNED_URL_FAILED" /\ last.token.shape # "jwt"

\* Signed URLs are enabled but no secret key is configured: GenerateSignedURL
\* failed.
C21_Witness ==
    /\ last.op = "GenerateSignedURL"
    /\ config.present /\ config.enabled /\ config.secretKey = ""
    /\ last.err = "SIGNED_URL_FAILED"

\* The request was answered as a direct download answers: never with a
\* redirect or a rejection, and with the bytes of the file when with any.
ServedDirectly ==
    /\ resp.status \in {200, 404, 500}
    /\ resp.location.shape # "jwt"
    /\ resp.status = 200 <=> resp.body # <<>>
    /\ resp.status = 200
        => /\ IsFile(fs, FullPath[resp.path].full)
           /\ resp.body = fs[FullPath[resp.path].full].data
    /\ (FullPath[resp.path].err = "OK" /\ FullPath[resp.path].full \notin DOMAIN fs)
        => resp.status = 404

\* C22: StreamFile takes one branch a request.  With a token parameter the
\* token is validated and the file served or the request rejected, also when
\* signed_url=true is present; without a token, signed_url=true mints a GET
\* token for the requested path and redirects, streaming nothing; with neither,
\* the file is served with no token check.
C22_OneBranchByPriority ==
    resp.status # 0
        => IF resp.hasToken
               THEN IF ValidateSignedToken(config, resp.token, resp.path, "GET",
                                           resp.tParse, resp.tCheck).err = "OK"
                        THEN ServedDirectly
                    ELSE resp.status = 401 /\ resp.body = <<>> /\ resp.location.shape # "jwt"
           ELSE IF resp.signedUrl
               THEN /\ resp.body = <<>> /\ ~resp.headers
                    /\ IF config.present /\ config.enabled /\ config.secretKey # ""
                           THEN /\ resp.status = 301
                                /\ resp.location.shape = "jwt"
                                /\ resp.location.path = resp.path
                                /\ resp.location.op = "GET"
                                /\ resp.location.iat = resp.tParse
                       ELSE resp.status = 500 /\ resp.location.shape # "jwt"
           ELSE ServedDirectly

\* A request with a valid token and signed_url=true was served the file.
C22_Witness ==
    /\ resp.hasToken
    /\ resp.signedUrl
    /\ resp.token \in issued
    /\ resp.status = 200
    /\ resp.body = <<1, 2>>

----------------------------------------------------------------------------
(* Construction of facades (specification SpecNew) *)

\* Facades constructed in one behaviour
MaxFacades == 2

\* Every method of S3Provider: not yet implemented
S3NotImplemented(fsys) == Ret(fsys, "PROVIDER_ERROR", "S3 provider not yet implemented", FALSE)

\* (s *Storage) Upload: the call goes to s.provider
StorageUpload(s, fsys, path, content, failAt) ==
    IF s.provider = "FileSystemProvider" THEN Upload(fsys, path, content, failAt)
    ELSE S3NotImplemented(fsys)

\* (s *Storage) Exists
StorageExists(s, fsys, path) ==
    IF s.provider = "FileSystemProvider" THEN Exists(fsys, path)
    ELSE S3NotImplemented(fsys)

\* New(config) is called; a Storage it returns is kept.
DoNew ==
    /\ Idle
    /\ \E c \in StorageConfigs, mkdirFails \in BOOLEAN :
        LET r == New(c, fs, mkdirFails) IN
        /\ r.storage # Nil => Len(facades) < MaxFacades
        /\ fs' = r.fs
        /\ last' = [cfg |-> c, storage |-> r.storage]
                       @@ [NoCall EXCEPT !.op = "New", !.err = r.err]
        /\ facades' = IF r.storage = Nil THEN facades ELSE Append(facades, r.storage)
    /\ UNCHANGED <<config, now, issued, resp, procs, batch>>

\* A file is uploaded through one of the facades.
DoFacadeUpload ==
    /\ Idle
    /\ \E i \in 1..Len(facades), c \in Contents, k \in {-1, 1} :
        Returns("Upload", <<"a">>, <<>>, c, StorageUpload(facades[i], fs, <<"a">>, c, k))

\* A file is looked for through one of the facades.
DoFacadeExists ==
    /\ Idle
    /\ \E i \in 1..Len(facades) :
        Returns("Exists", <<"a">>, <<>>, <<>>, StorageExists(facades[i], fs, <<"a">>))

InitNew ==
    /\ config = SignedConfig
    /\ fs = BareFs
    /\ last = NoCall
    /\ now = 0
    /\ issued = {}
    /\ resp = NoResponse
    /\ procs = <<>>
    /\ batch = NoBatch
    /\ facades = <<>>

NextNew ==
    \/ DoNew
    \/ DoFacadeUpload
    \/ DoFacadeExists
    \/ Forget

SpecNew == InitNew /\ [][NextNew]_vars

\* The configuration names a supported provider and carries its
\* sub-configuration.
Invalid(c) ==
    \/ c.Name = ""
    \/ c.Provider \notin {"filesystem", "s3"}
    \/ c.Provider = "filesystem" /\ c.FileSystem = Nil
    \/ c.Provider = "s3" /\ c.S3 = Nil
    \/ c.Provider = "filesystem" /\ c.FileSystem # Nil /\ c.FileSystem.BasePath = <<>>

\* C23: New returns a facade only for a valid configuration.  With an empty
\* name, an empty or unsupported provider, no sub-configuration for the
\* provider, or an empty filesystem basePath, New returns an error and nil;
\* it returns either an error or a facade, never both; and the backend a
\* returned facade is bound to is the configured one and never changes.
C23_FacadeOnlyWhenValid ==
    [][ /\ \A i \in 1..Len(facades) : i <= Len(facades') /\ facades'[i] = facades[i]
        /\ last'.op = "New" =>
            /\ Invalid(last'.cfg) => last'.err # "OK" /\ last'.storage = Nil
            /\ last'.err # "OK" <=> last'.storage = Nil
            /\ last'.storage = Nil => facades' = facades
            /\ last'.storage # Nil =>
                /\ facades' = Append(facades, last'.storage)
                /\ last'.storage.config = last'.cfg
                /\ last'.storage.provider =
                       IF last'.cfg.Provider = "filesystem" THEN "FileSystemProvider"
                       ELSE "S3Provider"
      ]_vars

\* With two facades constructed and used, New has refused a configuration
\* without a name.
C23_Witness ==
    /\ Len(facades) = 2
    /\ facades[1].provider # facades[2].provider
    /\ IsFile(fs, FullPath[<<"a">>].full)
    /\ last.op = "New"
    /\ last.cfg.Name = ""
    /\ last.cfg.Provider = "filesystem"
    /\ last.cfg.FileSystem # Nil
    /\ last.err # "OK"
    /\ last.storage = Nil

\* C24: a configuration is accepted only when exactly one of the
\* sub-configurations (filesystem, S3) is set and it is the one of the
\* provider; with both set, or only the other one, New fails.
C24_ExactlyOneSubConfig ==
    (last.op = "New" /\ last.err = "OK")
        => LET c == last.cfg IN
           /\ (c.FileSystem # Nil) # (c.S3 # Nil)
           /\ c.Provider = "filesystem" <=> c.FileSystem # Nil
           /\ c.Provider = "s3" <=> c.S3 # Nil

----------------------------------------------------------------------------
(* Failed calls and what they leave (specification Spec) *)

\* C25: when Move's rename fails, its copy succeeds and the source cannot be
\* deleted, Move removes the copy and returns the error of the delete: the
\* source is the file it was, with its content, and nothing is at the
\* destination.
C25_FallbackCleansUp ==
    [][(Idle /\ last'.op = "Move" /\ last'.err = "DELETE_FAILED")
        => LET src == FullPath[last'.path].full
               dst == FullPath[last'.path2].full
           IN  /\ last'.msg = "failed to delete file"
               /\ IsFile(fs, src)
               /\ IsFile(fs', src) /\ fs'[src] = fs[src]
               /\ dst \notin DOMAIN fs'
               /\ ~Exists(fs', last'.path2).exists]_vars

\* A move fell back to copying and could not delete its source.
C25_Witness ==
    /\ last.op = "Move"
    /\ last.err = "DELETE_FAILED"
    /\ last.path = <<"a">>
    /\ last.path2 = <<".", "/", "/", "b">>
    /\ IsFile(fs, FullPath[last.path].full)
    /\ fs[FullPath[last.path].full].data = <<1, 2>>
    /\ FullPath[last.path2].full \notin DOMAIN fs

\* C29: a failed Upload or Copy leaves a file that was at the destination
\* before the call as it was, with its content.
C29_FailureKeepsDestination ==
    [][(Idle /\ last'.op \in {"Upload", "Copy"} /\ last'.err # "OK")
        => LET dst == IF last'.op = "Upload" THEN FullPath[last'.path].full
                      ELSE FullPath[last'.path2].full
           IN  IsFile(fs, dst) => IsFile(fs', dst) /\ fs'[dst] = fs[dst]]_vars

\* The cleaned path has an element that is "..".
HasDotDotSegment(path) ==
    LET e == Elements(Clean(path)) IN \E i \in 1..Len(e) : e[i] = DotDot

\* C30: an operation answers InvalidPath only for a path whose cleaned form
\* has an element equal to ".."; a path whose names merely contain two dots
\* in a row is resolved under the base path.
C30_OnlyDotDotSegments ==
    (last.op # "none" /\ last.path # <<>>)
        => /\ last.err = "INVALID_PATH"
                => HasDotDotSegment(last.path) \/ HasDotDotSegment(last.path2)
           /\ ~HasDotDotSegment(last.path)
                => /\ FullPath[last.path].err = "OK"
                   /\ IsPrefixOf(BaseDir, FullPath[last.path].full)

----------------------------------------------------------------------------
(* The results of one UploadFromCtx call (specification SpecBatch) *)

\* C28: the results of a successful UploadFromCtx call have pairwise distinct
\* paths, and after the call the file at the path of each result holds the
\* content of the staged file the result is of, also with an explicit
\* destination filename and staged files of the same extension.
C28_EachResultItsOwnFile ==
    (batch.status = "returned" /\ batch.err = "OK")
        => \A j, k \in 1..Len(batch.results) :
               /\ j # k => batch.results[j].Path # batch.results[k].Path
               /\ IsFile(fs, FullPath[batch.results[k].Path].full)
               /\ fs[FullPath[batch.results[k].Path].full].data = FileOfResult(k).content

----------------------------------------------------------------------------
(* A reader beside the uploads (specification SpecRead) *)

\* Another caller downloads the path call i is uploading to, while the
\* Upload of call i runs.  One read is followed in a behaviour.
ReadDownload(i) ==
    /\ procs[i].pc \in {"upload", "create", "copy"}
    /\ last.op = "none"
    /\ last' = Call("Download", procs[i].filePath, <<>>, <<i>>,
                    Download(fs, procs[i].filePath))
    /\ UNCHANGED <<config, fs, now, issued, resp, procs, batch, facades>>

\* Another caller asks for the FileInfo of the path call i is uploading to.
ReadGetInfo(i) ==
    /\ procs[i].pc \in {"upload", "create", "copy"}
    /\ last.op = "none"
    /\ last' = Call("GetInfo", procs[i].filePath, <<>>, <<i>>,
                    GetInfo(fs, procs[i].filePath))
    /\ UNCHANGED <<config, fs, now, issued, resp, procs, batch, facades>>

NextRead ==
    \E i \in Uploads :
        \/ ChooseName(i)
        \/ MakeDirectory(i)
        \/ CreateFile(i)
        \/ WriteByte(i)
        \/ WriteFails(i)
        \/ Finish(i)
        \/ ReadDownload(i)
        \/ ReadGetInfo(i)

SpecRead == InitPipeline /\ [][NextRead]_vars

\* C26: a Download or GetInfo of a path that runs while an Upload to the path
\* runs sees the path as it was before the upload, here without a file, or
\* the whole new content with its size, never an empty or partly written
\* file.  (Stated for a read beside one upload: the other call has not
\* started.)
C26_ReadersSeeWholeFiles ==
    (/\ last.op \in {"Download", "GetInfo"}
     /\ \A j \in Uploads \ {last.input[1]} : procs[j].pc = "start")
        => \/ last.err = "FILE_NOT_FOUND"
           \/ /\ last.err = "OK"
              /\ last.size = Len(Staged[last.input[1]])
              /\ last.op = "Download" => last.data = Staged[last.input[1]]

----------------------------------------------------------------------------
(* Direct downloads beside other callers (specification SpecServe) *)

\* handleDirectDownload, first half: s.Exists.  A request for a file that
\* exists goes on to be served.
CheckExistence ==
    /\ procs = <<>>
    /\ resp = NoResponse
    /\ \E p \in RequestPaths :
        LET ex == Exists(fs, p) IN
        IF ex.err # "OK"
            THEN /\ resp' = Answer(p, FALSE, Garbage, FALSE, now, now,
                                   Response(500, FALSE, <<>>, Garbage))
                 /\ procs' = procs
        ELSE IF ~ex.exists
            THEN /\ resp' = Answer(p, FALSE, Garbage, FALSE, now, now,
                                   Response(404, FALSE, <<>>, Garbage))
                 /\ procs' = procs
        ELSE /\ procs' = <<[pc |-> "download", path |-> p]>>
             /\ resp' = resp
    /\ UNCHANGED <<config, fs, last, now, issued, batch, facades>>

\* handleDirectDownload, second half: s.Download, the headers and io.Copy
OpenAndStream ==
    /\ procs # <<>>
    /\ \E copyFails \in BOOLEAN :
        LET p == procs[1].path
            dl == Download(fs, p)
        IN  resp' = Answer(p, FALSE, Garbage, FALSE, now, now,
                           IF dl.err # "OK" THEN Response(500, FALSE, <<>>, Garbage)
                           ELSE IF copyFails THEN Response(500, TRUE, <<>>, Garbage)
                           ELSE Response(200, TRUE, dl.data, Garbage))
    /\ procs' = <<>>
    /\ UNCHANGED <<config, fs, last, now, issued, batch, facades>>

\* Another caller uploads a file.
OtherUpload ==
    /\ \E p \in {<<"a">>, <<".", "/", "/", "b">>}, c \in Contents : fs' = Upload(fs, p, c, -1).fs
    /\ UNCHANGED <<config, last, now, issued, resp, procs, batch, facades>>

\* Another caller deletes a file.
OtherDelete ==
    /\ \E p \in {<<"a">>, <<".", "/", "/", "b">>} : fs' = Delete(fs, p).fs
    /\ UNCHANGED <<config, last, now, issued, resp, procs, batch, facades>>

InitServe ==
    /\ config = SignedConfig
    /\ fs \in {InitFs, WithFileA}
    /\ last = NoCall
    /\ now = 0
    /\ issued = {}
    /\ resp = NoResponse
    /\ procs = <<>>
    /\ batch = NoBatch
    /\ facades = <<TheStorage>>

NextServe ==
    \/ CheckExistence
    \/ OpenAndStream
    \/ OtherUpload
    \/ OtherDelete
    \/ Forget

SpecServe == InitServe /\ [][NextServe]_vars

\* C27: a direct download is answered with 404, without a header set and
\* without a byte streamed, whenever the file is absent when the request
\* comes to open it, also when it was there at the existence check and was
\* deleted since.
C27_AbsentIsNotFound ==
    [][(resp = NoResponse /\ resp' # NoResponse
            /\ FullPath[resp'.path].err = "OK"
            /\ FullPath[resp'.path].full \notin DOMAIN fs)
        => /\ resp'.status = 404
           /\ ~resp'.headers
           /\ resp'.body = <<>>]_vars

====
